---- MODULE Spec2Model ----
(***************************************************************************)
(* A model of the GitHub scraping clients of github-intelligence:          *)
(*   src/scrapers/github.py  GitHubClient (rate governor, pagination       *)
(*                           walks), search_trending_repos, analyze_user   *)
(*   src/scrapers/repo.py    GitHubScraper (mappers, get_repo_full),       *)
(*                           scrape_repo                                   *)
(* Every call is a coroutine (a task).  A task is suspended at an await    *)
(* (pc "awaiting": client.get, "sleeping": asyncio.sleep, "closing":       *)
(* client.aclose) and runs atomically between two awaits.                  *)
(***************************************************************************)
EXTENDS Integers, Sequences, FiniteSets, TLC

\* ------------------------------------------------------------------ bounds
\* The epoch clock (seconds) when the model starts.
Epoch0 == 20
\* How far after the response a quota reset epoch lies.
ResetAhead == 10
\* The largest epoch second at which the loop's monotonic clock read zero.
MaxOrigin == 5
\* The remote stops announcing low quota once the epoch clock reached this.
MaxClock == 30
\* How often the remote listing changes its length.
MaxChanges == 1
\* The longest raw listing a GitHubScraper endpoint answers with.
MaxItems == 2
\* The longest repository listing analysed with repos of every shape.
MaxRepos == 3
\* How many repos more than top_repos keeps the long listings have.
MaxBeyond == 1
\* How many GitHubScraper objects a process constructs.
MaxScrapers == 3
\* How many requests one GitHubScraper sends.
MaxSends == 2

\* ------------------------------------------------------- program constants
PageSize == 100
SearchShort == 100
ListPerPage == 100
UserReposCap == 100
ContributorsCap == 100
StarCap == 1000
TrendingCap == 100
DefaultRemaining == 60
LowWater == 5
DefaultReset == 0
ContributorsLimit == 30
IssuesLimit == 30
SearchLimit == 30
TopN == 10

Min(a, b) == IF a < b THEN a ELSE b
Max(a, b) == IF a > b THEN a ELSE b

Tasks == {"a", "b"}

\* -------------------------------------------------------------- the remote
\* A listing endpoint serves positions 1..total; the request (page p,
\* per_page s) is answered with the positions (p-1)*s+1 .. min(p*s, total),
\* written as the run [from, n].
Slice(tot, p, s) ==
  LET from == (p - 1) * s + 1
  IN  [from |-> from, n |-> Max(0, Min(s, tot - (from - 1)))]

\* The lengths the listing takes: around the page size and the caps.
Totals ==
  {0, 1, PageSize - 1, PageSize, PageSize + 1, 2 * PageSize + PageSize \div 2,
   StarCap - 1, StarCap + PageSize}

\* The caps search_repos is called with.
SearchCaps ==
  {0, 1, PageSize \div 2, PageSize, PageSize + 1, PageSize + PageSize \div 2,
   2 * PageSize + PageSize \div 2}

Statuses == {200, 429, 500}

\* The quota headers of a response: any of the two may be missing.
HeaderSets(clock) ==
  {[k \in {} |-> 0],
   [k \in {"X-RateLimit-Remaining"} |-> LowWater - 1],
   [k \in {"X-RateLimit-Remaining", "X-RateLimit-Reset"} |->
      IF k = "X-RateLimit-Remaining" THEN LowWater ELSE clock + ResetAhead],
   [k \in {"X-RateLimit-Remaining", "X-RateLimit-Reset"} |->
      IF k = "X-RateLimit-Remaining" THEN LowWater - 1 ELSE clock],
   [k \in {"X-RateLimit-Remaining", "X-RateLimit-Reset"} |->
      IF k = "X-RateLimit-Remaining" THEN LowWater - 1 ELSE clock + ResetAhead]}

\* dict.get(key, default) on the headers.
HeaderGet(h, k, d) == IF k \in DOMAIN h THEN h[k] ELSE d

\* --------------------------------------------------------------- the state
VARIABLES
  tasks,       \* per task: the coroutine's frame (see IdleTask)
  closes,      \* how often aclose() ran on the HTTP client in use
  total,       \* the length of the remote listing
  changes,     \* how often the listing changed so far
  now,         \* the epoch clock, in seconds
  loopOrigin,  \* the epoch second at which the event loop's clock read 0
  HEADERS,     \* the class attribute GitHubScraper.HEADERS, one per process
  scrapers     \* the GitHubScraper objects constructed so far

vars == <<tasks, closes, total, changes, now, loopOrigin, HEADERS, scrapers>>

NoResp == [status |-> 0, hdr |-> [k \in {} |-> 0], body |-> <<>>, at |-> 0, wait |-> 0]

\* The arguments of search_trending_repos(language="", since="daily").  The
\* second one is what a caller passes in the place of a limit.
NoArgs == [language |-> "", since |-> [kind |-> "str", val |-> "daily"]]

TrendingArgs ==
  {[language |-> l, since |-> x] :
     l \in {"", "python"},
     x \in {[kind |-> "str", val |-> "daily"],
            [kind |-> "int", val |-> PageSize \div 2]}}

\* pc: idle, awaiting (client.get), sleeping (asyncio.sleep), closing
\* (client.aclose in __aexit__), done (the outcome is with the caller).
\* fn: the function the caller called; cap: the per_page argument of
\* search_repos; args: the arguments of search_trending_repos;
\* method: the method now running;
\* reqs: the requests issued so far; resp: the latest response, with the
\* time it came at and the wait the governor derived from it;
\* parts: the results of the sub-fetches completed so far.
IdleTask ==
  [pc |-> "idle", fn |-> "none", cap |-> 0, args |-> NoArgs, method |-> "none",
   acc |-> <<>>, page |-> 0, reqs |-> <<>>, resp |-> NoResp,
   parts |-> <<>>, outcome |-> "none", result |-> <<>>]

ClientWalks == {"search_repos", "get_user_repos", "get_contributors", "get_stargazers"}
ClientMethods == ClientWalks \cup {"get_user", "get_repo"}
ScraperMethods ==
  {"scraper.get_repo", "scraper.get_contributors", "scraper.get_issues",
   "scraper.get_languages", "scraper.search_repos"}
ScopedFns == {"search_trending_repos", "analyze_user", "scrape_repo"}
\* A get_repo_full that fetches the issues before the contributors.
FullOrderIssuesFirst ==
  <<"scraper.get_repo", "scraper.get_issues", "scraper.get_contributors",
    "scraper.get_languages">>

\* The four awaits of get_repo_full, in the order of its statements.
FullOrder ==
  <<"scraper.get_repo", "scraper.get_contributors", "scraper.get_issues",
    "scraper.get_languages">>

\* len() of an accumulator held as a sequence of runs.
\* (The runs lo..hi are counted as those of lo..mid plus the rest.)
RECURSIVE CountIn(_, _, _)
CountIn(acc, lo, hi) ==
  IF lo > hi THEN 0
  ELSE IF lo = hi THEN acc[lo].n
  ELSE LET mid == (lo + hi) \div 2
       IN  CountIn(acc, lo, mid) + CountIn(acc, mid + 1, hi)

Count(acc) == CountIn(acc, 1, Len(acc))

\* The event loop's clock: asyncio.get_event_loop().time() is monotonic, with
\* an origin of its own.
LoopTime == now - loopOrigin

\* ------------------------------------------------------------ JSON values
Null == [kind |-> "null", val |-> ""]
JStr(s) == [kind |-> "str", val |-> s]
JInt(n) == [kind |-> "int", val |-> n]
JList(q) == [kind |-> "list", val |-> q]
JDict(d) == [kind |-> "dict", val |-> d]
EmptyDict == [k \in {} |-> Null]

\* dict.get(key, default): the default only when the key is missing.
Get(d, k, default) == IF k \in DOMAIN d THEN d[k] ELSE default

\* Python's truth value of a JSON value.
Truthy(v) ==
  CASE v.kind = "null" -> FALSE
    [] v.kind = "str" -> v.val # ""
    [] v.kind = "int" -> v.val # 0
    [] v.kind = "list" -> v.val # <<>>
    [] v.kind = "dict" -> DOMAIN v.val # {}

WithKey(d, k, v) == [x \in DOMAIN d \cup {k} |-> IF x = k THEN v ELSE d[x]]
Without(d, k) == [x \in DOMAIN d \ {k} |-> d[x]]

\* All sequences over S of length at most n.
RECURSIVE SeqsUpTo(_, _)
SeqsUpTo(S, n) ==
  IF n = 0 THEN {<<>>}
  ELSE LET shorter == SeqsUpTo(S, n - 1)
       IN  shorter \cup {Append(q, x) : q \in shorter, x \in S}

\* The outcome of a computation: a record, or the exception it raised.
Mapped(rec) == [ok |-> TRUE, rec |-> rec, err |-> "none"]
Failed(err) == [ok |-> FALSE, rec |-> <<>>, err |-> err]

\* -------------------------------------------------- GitHubClient, github.py
\* The query search_trending_repos builds.
TrendingQuery(language) ==
  IF language # "" THEN "stars:>100" \o " language:" \o language ELSE "stars:>100"

\* The query a direct caller of search_repos passes.
SearchQuery == "topic:tla"

\* The q and sort parameters of a request (empty: not sent).
QueryParam(s, ep) ==
  IF ep # "search_repos" THEN ""
  ELSE IF s.fn = "search_trending_repos" THEN TrendingQuery(s.args.language)
  ELSE SearchQuery

SortParam(s, ep) ==
  CASE ep = "search_repos" -> "stars"
    [] ep = "get_user_repos" -> "updated"
    [] OTHER -> ""

\* await self.client.get(url, params=...): the request leaves, the task waits.
Issue(s, ep, page, perPage) ==
  [s EXCEPT !.pc = "awaiting",
            !.reqs = Append(@, [ep |-> ep, page |-> page, per_page |-> perPage,
                                q |-> QueryParam(s, ep), sort |-> SortParam(s, ep)])]

\* An exit that runs the close only for ordinary exceptions and returns, not
\* for a cancellation.
ExitCancelSkipsClose(s, outcome, value) ==
  [s EXCEPT !.pc = IF s.fn \in ScopedFns /\ outcome # "cancelled"
                   THEN "closing" ELSE "done",
            !.outcome = outcome, !.result = value]

\* async with ... as client: __aexit__ awaits close() on every way out of the
\* block; a plain method call hands its outcome to the caller at once.
Exit(s, outcome, value) ==
  [s EXCEPT !.pc = IF s.fn \in ScopedFns THEN "closing" ELSE "done",
            !.outcome = outcome, !.result = value]

Raise(s, err) == Exit(s, "raised", err)

\* The while condition's bound of each walk.
WalkLimit(s) ==
  CASE s.method = "search_repos" -> s.cap
    [] s.method = "get_user_repos" -> UserReposCap
    [] s.method = "get_contributors" -> ContributorsCap
    [] s.method = "get_stargazers" -> StarCap

\* A walk that asks for a whole page every time, whatever is still missing.
WalkPerPageWholePages(s) == PageSize

\* The per_page parameter of each walk's request.
WalkPerPage(s) ==
  IF s.method = "search_repos"
  THEN Min(PageSize, s.cap - Count(s.acc))
  ELSE ListPerPage

\* The break after extend: only search_repos has one.
ShortPageBreak(s, items) == s.method = "search_repos" /\ items.n < SearchShort

\* ----------------------------------------- analyze_user, github.py 165-200
\* The repos of a user's listing, by what their items carry.
StarGo10 == [stargazers_count |-> JInt(10), forks_count |-> JInt(1), language |-> JStr("Go")]
StarGo5 == [stargazers_count |-> JInt(5), forks_count |-> JInt(2), language |-> JStr("Go")]
NullLang == [stargazers_count |-> JInt(0), forks_count |-> JInt(0), language |-> Null]
NoCounts == [language |-> JStr("Python")]
NoLang == [stargazers_count |-> JInt(10), forks_count |-> JInt(3)]
NullStars == [stargazers_count |-> Null, forks_count |-> JInt(1), language |-> JStr("Go")]

\* The listing serves these shapes in turn: position k holds the repo with
\* id k.
RepoCycle == <<StarGo10, StarGo5, NullLang, NoCounts, NoLang>>
RepoAt(k) == WithKey(RepoCycle[((k - 1) % Len(RepoCycle)) + 1], "id", JInt(k))

\* The position in the listing of item number i of an accumulator of runs.
RECURSIVE PosAt(_, _, _)
PosAt(acc, r, i) ==
  IF i <= acc[r].n THEN acc[r].from + i - 1 ELSE PosAt(acc, r + 1, i - acc[r].n)

\* The list get_user_repos returns: the items of the accumulated pages.
Repos(acc) == [i \in 1..Count(acc) |-> RepoAt(PosAt(acc, 1, i))]

\* sum(r.get(key, 0) for r in repos), over the repos lo..hi: the sum over
\* lo..mid plus the sum over the rest.
RECURSIVE SumIn(_, _, _, _)
SumIn(repos, key, lo, hi) ==
  IF lo > hi THEN 0
  ELSE IF lo = hi THEN Get(repos[lo], key, JInt(0)).val
  ELSE LET mid == (lo + hi) \div 2
       IN  SumIn(repos, key, lo, mid) + SumIn(repos, key, mid + 1, hi)

\* int + None (or another non-number) raises TypeError in sum().
Summable(repos, key) ==
  \A i \in 1..Len(repos) : Get(repos[i], key, JInt(0)).kind = "int"

\* A histogram that gives every repo a key, its language or none.
HasLanguageAlways(lang) == TRUE

\* if lang:
HasLanguage(lang) == Truthy(lang)

\* The for loop over repos, languages[lang] = languages.get(lang, 0) + 1,
\* run over the repos lo..hi: the counts of lo..mid and those of the rest,
\* added up.
RECURSIVE LanguagesIn(_, _, _)
LanguagesIn(repos, lo, hi) ==
  IF lo > hi THEN [l \in {} |-> 0]
  ELSE IF lo = hi
  THEN LET lang == Get(repos[lo], "language", Null)
       IN  IF HasLanguage(lang) THEN [l \in {lang.val} |-> 1] ELSE [l \in {} |-> 0]
  ELSE LET mid == (lo + hi) \div 2
           a == LanguagesIn(repos, lo, mid)
           b == LanguagesIn(repos, mid + 1, hi)
       IN  [l \in DOMAIN a \cup DOMAIN b |->
              (IF l \in DOMAIN a THEN a[l] ELSE 0)
                + (IF l \in DOMAIN b THEN b[l] ELSE 0)]

\* key=lambda r: r.get("stargazers_count", 0)
StarKey(r) == Get(r, "stargazers_count", JInt(0)).val

\* Among equal keys the one listed last comes first.
LastMax(repos, S) ==
  CHOOSE i \in S :
    \A j \in S : StarKey(repos[j]) < StarKey(repos[i])
                   \/ (StarKey(repos[j]) = StarKey(repos[i]) /\ i >= j)

\* The next element of sorted(..., reverse=True) among the positions S: the
\* largest key, and among equal keys the one listed first (the sort is
\* stable, also with reverse=True).
FirstMax(repos, S) ==
  CHOOSE i \in S :
    \A j \in S : StarKey(repos[j]) < StarKey(repos[i])
                   \/ (StarKey(repos[j]) = StarKey(repos[i]) /\ i <= j)

\* The first n elements of sorted(repos, key=..., reverse=True), taken from
\* the positions S.
RECURSIVE SortedHead(_, _, _)
SortedHead(repos, S, n) ==
  IF n = 0 \/ S = {} THEN <<>>
  ELSE LET i == FirstMax(repos, S)
       IN  <<repos[i]>> \o SortedHead(repos, S \ {i}, n - 1)

\* sorted(repos, key=..., reverse=True)[:10]
TopRepos(repos) == SortedHead(repos, 1..Len(repos), TopN)

Username == "octocat"

\* The statements of analyze_user after its two fetches.
Analyze(username, user, repos) ==
  IF ~Summable(repos, "stargazers_count") \/ ~Summable(repos, "forks_count")
  THEN Failed("TypeError")
  ELSE Mapped(
    [username |-> JStr(username),
     name |-> Get(user, "name", Null),
     bio |-> Get(user, "bio", Null),
     followers |-> Get(user, "followers", Null),
     following |-> Get(user, "following", Null),
     public_repos |-> Get(user, "public_repos", Null),
     total_stars |-> SumIn(repos, "stargazers_count", 1, Len(repos)),
     total_forks |-> SumIn(repos, "forks_count", 1, Len(repos)),
     languages |-> LanguagesIn(repos, 1, Len(repos)),
     top_repos |-> TopRepos(repos)])

\* analyze_user from the return of get_user_repos on: parts holds the
\* profile and the repos.
AnalyzeTail(s) ==
  LET r == Analyze(Username, s.parts[1], s.parts[2])
  IN  IF r.ok THEN Exit(s, "returned", r.rec)
      ELSE Raise(s, [err |-> r.err, status |-> 0])

RECURSIVE StartMethod(_, _), Return(_, _), WalkLoop(_)

\* A while loop without its condition: another request whatever was
\* accumulated.
WalkLoopNoCap(s) == Issue(s, s.method, s.page, WalkPerPage(s))

\* The head of the while loop: another request, or return the accumulator.
WalkLoop(s) ==
  IF Count(s.acc) < WalkLimit(s)
  THEN Issue(s, s.method, s.page, WalkPerPage(s))
  ELSE Return(s, s.acc)

\* A loop body that extends the accumulator but asks for the same page again.
WalkPageSamePage(s, items) ==
  IF items.n = 0
  THEN Return(s, s.acc)
  ELSE LET s1 == [s EXCEPT !.acc = Append(@, items)]
       IN  IF ShortPageBreak(s1, items) THEN Return(s1, s1.acc) ELSE WalkLoop(s1)

\* The loop body after the response: items is the page's run of positions.
WalkPage(s, items) ==
  IF items.n = 0
  THEN Return(s, s.acc)
  ELSE LET s1 == [s EXCEPT !.acc = Append(@, items), !.page = @ + 1]
       IN  IF ShortPageBreak(s1, items) THEN Return(s1, s1.acc) ELSE WalkLoop(s1)

\* The per_page parameter of a GitHubScraper request (0: none is sent).
ScraperPerPage(m) ==
  CASE m = "scraper.get_contributors" -> ContributorsLimit
    [] m = "scraper.get_issues" -> IssuesLimit
    [] m = "scraper.search_repos" -> SearchLimit
    [] OTHER -> 0

\* A method begins: its locals are fresh, and it runs to its first await.
StartMethod(s, m) ==
  LET s1 == [s EXCEPT !.method = m, !.acc = <<>>, !.page = 1]
  IN  IF m \in ClientWalks THEN WalkLoop(s1) ELSE Issue(s1, m, 0, ScraperPerPage(m))

\* A method returns v to the function that called it.
Return(s, v) ==
  CASE s.fn = "analyze_user" /\ s.method = "get_user" ->
         StartMethod([s EXCEPT !.parts = Append(@, v)], "get_user_repos")
    [] s.fn = "analyze_user" /\ s.method = "get_user_repos" ->
         AnalyzeTail([s EXCEPT !.parts = Append(@, Repos(v))])
    [] s.fn = "scraper.get_repo_full" ->
         LET ps == Append(s.parts, v)
             s1 == [s EXCEPT !.parts = ps]
         IN  IF Len(ps) < Len(FullOrder)
             THEN StartMethod(s1, FullOrder[Len(ps) + 1])
             ELSE Exit(s1, "returned",
                       [repo |-> ps[1], contributors |-> ps[2],
                        issues |-> ps[3], languages |-> ps[4]])
    [] OTHER -> Exit(s, "returned", v)

\* ---------------------------------------------- the models of repo.py 16-55
\* pydantic's validation of one field against its annotation.
Valid(ty, v) ==
  CASE ty = "str" -> v.kind = "str"
    [] ty = "int" -> v.kind = "int"
    [] ty = "optstr" -> v.kind \in {"str", "null"}
    [] ty = "liststr" ->
         v.kind = "list" /\ \A i \in 1..Len(v.val) : v.val[i].kind = "str"

RepositoryTypes ==
  [name |-> "str", full_name |-> "str", owner |-> "str", description |-> "str",
   stars |-> "int", forks |-> "int", watchers |-> "int", open_issues |-> "int",
   language |-> "optstr", license |-> "optstr", topics |-> "liststr",
   created_at |-> "str", updated_at |-> "str", pushed_at |-> "str", url |-> "str"]

ContributorTypes ==
  [login |-> "str", avatar_url |-> "str", contributions |-> "int", url |-> "str"]

IssueTypes ==
  [number |-> "int", title |-> "str", state |-> "str", author |-> "str",
   created_at |-> "str", closed_at |-> "optstr", labels |-> "liststr",
   comments |-> "int"]

\* Model(**fields): the record, or pydantic's ValidationError.
Construct(types, fields) ==
  IF \A f \in DOMAIN types : Valid(types[f], fields[f])
  THEN Mapped(fields)
  ELSE Failed("ValidationError")

\* ------------------------------------------------- GitHubScraper, repo.py
\* A mapper that takes the stars from watchers_count.
MapRepoStarsFromWatchers(data, owner) ==
  LET lic == Get(data, "license", Null)
  IN  IF Truthy(lic) /\ lic.kind # "dict"
      THEN Failed("AttributeError")
      ELSE Construct(RepositoryTypes,
        [name |-> Get(data, "name", JStr("")),
         full_name |-> Get(data, "full_name", JStr("")),
         owner |-> JStr(owner),
         description |-> Get(data, "description", JStr("")),
         stars |-> Get(data, "watchers_count", JInt(0)),
         forks |-> Get(data, "forks_count", JInt(0)),
         watchers |-> Get(data, "watchers_count", JInt(0)),
         open_issues |-> Get(data, "open_issues_count", JInt(0)),
         language |-> Get(data, "language", Null),
         license |-> IF Truthy(lic) THEN Get(lic.val, "name", Null) ELSE Null,
         topics |-> Get(data, "topics", JList(<<>>)),
         created_at |-> Get(data, "created_at", JStr("")),
         updated_at |-> Get(data, "updated_at", JStr("")),
         pushed_at |-> Get(data, "pushed_at", JStr("")),
         url |-> Get(data, "html_url", JStr(""))])

\* Repository(...) of get_repo.  data.get("license", {}).get("name") runs
\* only for a truthy license, and needs it to be a dict.
MapRepo(data, owner) ==
  LET lic == Get(data, "license", Null)
  IN  IF Truthy(lic) /\ lic.kind # "dict"
      THEN Failed("AttributeError")
      ELSE Construct(RepositoryTypes,
        [name |-> Get(data, "name", JStr("")),
         full_name |-> Get(data, "full_name", JStr("")),
         owner |-> JStr(owner),
         description |-> Get(data, "description", JStr("")),
         stars |-> Get(data, "stargazers_count", JInt(0)),
         forks |-> Get(data, "forks_count", JInt(0)),
         watchers |-> Get(data, "watchers_count", JInt(0)),
         open_issues |-> Get(data, "open_issues_count", JInt(0)),
         language |-> Get(data, "language", Null),
         license |-> IF Truthy(lic) THEN Get(lic.val, "name", Null) ELSE Null,
         topics |-> Get(data, "topics", JList(<<>>)),
         created_at |-> Get(data, "created_at", JStr("")),
         updated_at |-> Get(data, "updated_at", JStr("")),
         pushed_at |-> Get(data, "pushed_at", JStr("")),
         url |-> Get(data, "html_url", JStr(""))])

\* Contributor(...) of get_contributors.
MapContributor(c) ==
  Construct(ContributorTypes,
    [login |-> Get(c, "login", JStr("")),
     avatar_url |-> Get(c, "avatar_url", JStr("")),
     contributions |-> Get(c, "contributions", JInt(0)),
     url |-> Get(c, "html_url", JStr(""))])

\* if i.get("pull_request"): continue
IsPullRequest(i) == Truthy(Get(i, "pull_request", Null))

\* Issue(...) of get_issues.  i.get("user", {}).get("login", "") needs a dict,
\* the labels comprehension a list of dicts.
MapIssue(i) ==
  LET user == Get(i, "user", JDict(EmptyDict))
      labels == Get(i, "labels", JList(<<>>))
  IN  IF user.kind # "dict" THEN Failed("AttributeError")
      ELSE IF labels.kind # "list" THEN Failed("TypeError")
      ELSE IF \E k \in 1..Len(labels.val) : labels.val[k].kind # "dict"
      THEN Failed("AttributeError")
      ELSE Construct(IssueTypes,
        [number |-> Get(i, "number", JInt(0)),
         title |-> Get(i, "title", JStr("")),
         state |-> Get(i, "state", JStr("")),
         author |-> Get(user.val, "login", JStr("")),
         created_at |-> Get(i, "created_at", JStr("")),
         closed_at |-> Get(i, "closed_at", Null),
         labels |-> JList([k \in 1..Len(labels.val) |->
                             Get(labels.val[k].val, "name", JStr(""))]),
         comments |-> Get(i, "comments", JInt(0))])

\* The for loop of get_contributors: the first item that raises ends it.
RECURSIVE MapContributors(_)
MapContributors(q) ==
  IF q = <<>> THEN Mapped(<<>>)
  ELSE LET h == MapContributor(Head(q))
       IN  IF ~h.ok THEN h
           ELSE LET r == MapContributors(Tail(q))
                IN  IF r.ok THEN Mapped(<<h.rec>> \o r.rec) ELSE r

\* The for loop of get_issues: pull requests are skipped, the first item that
\* raises ends the loop.
RECURSIVE MapIssues(_)
MapIssues(q) ==
  IF q = <<>> THEN Mapped(<<>>)
  ELSE IF IsPullRequest(Head(q)) THEN MapIssues(Tail(q))
  ELSE LET h == MapIssue(Head(q))
       IN  IF ~h.ok THEN h
           ELSE LET r == MapIssues(Tail(q))
                IN  IF r.ok THEN Mapped(<<h.rec>> \o r.rec) ELSE r

\* [r.get("full_name") for r in ...get("items", [])] of search_repos.
MapSearch(q) == Mapped([k \in 1..Len(q) |-> Get(q[k], "full_name", Null)])

\* What each handler makes of a 2xx body.
ScraperMap(m, body) ==
  CASE m = "scraper.get_repo" -> MapRepo(body, "facebook")
    [] m = "scraper.get_contributors" -> MapContributors(body)
    [] m = "scraper.get_issues" -> MapIssues(body)
    [] m = "scraper.get_languages" -> Mapped(body)
    [] m = "scraper.search_repos" -> MapSearch(body)

\* response.raise_for_status()
IsError(status) == ~(200 <= status /\ status < 300)

\* The rate check of get(): the wait derived from a response's headers.
GovernorWait(hdr, clock) ==
  LET remaining == HeaderGet(hdr, "X-RateLimit-Remaining", DefaultRemaining)
      reset_time == HeaderGet(hdr, "X-RateLimit-Reset", DefaultReset)
  IN  IF remaining < LowWater THEN Max(0, reset_time - clock) ELSE 0

\* A get() that answers a 429 by sending the same request again.
GetAfterWaitRetry(s) ==
  IF s.resp.status = 429
  THEN LET last == s.reqs[Len(s.reqs)]
       IN  Issue(s, last.ep, last.page, last.per_page)
  ELSE IF IsError(s.resp.status)
  THEN Raise(s, [err |-> "HTTPStatusError", status |-> s.resp.status])
  ELSE IF s.method \in ClientWalks
       THEN WalkPage(s, s.resp.body)
       ELSE Return(s, s.resp.body)

\* get() after its rate check: raise_for_status, then the caller's use of
\* the response.
GetAfterWait(s) ==
  IF IsError(s.resp.status)
  THEN Raise(s, [err |-> "HTTPStatusError", status |-> s.resp.status])
  ELSE IF s.method \in ClientWalks
       THEN WalkPage(s, s.resp.body)
       ELSE Return(s, s.resp.body)

\* A get() that checks the status before it sleeps: an error response is
\* raised at once, only a successful one waits.
AfterRateCheckRaiseFirst(s, w) ==
  IF w > 0 /\ ~IsError(s.resp.status)
  THEN [s EXCEPT !.pc = "sleeping"]
  ELSE GetAfterWait(s)

\* get() between the rate check and raise_for_status: a positive wait
\* suspends the call in asyncio.sleep, whatever the status.
AfterRateCheck(s, w) ==
  IF w > 0 THEN [s EXCEPT !.pc = "sleeping"] ELSE GetAfterWait(s)

\* A handler that swallows an error status and delivers an empty part.
ScraperAfterBestEffort(s, body) ==
  IF IsError(s.resp.status)
  THEN Return(s, <<>>)
  ELSE LET r == ScraperMap(s.method, body)
       IN  IF r.ok THEN Return(s, r.rec)
           ELSE Raise(s, [err |-> r.err, status |-> 0])

\* A GitHubScraper handler after its await: raise_for_status, then the
\* mapping of the body, then the caller up to the next await.
ScraperAfter(s, body) ==
  IF IsError(s.resp.status)
  THEN Raise(s, [err |-> "HTTPStatusError", status |-> s.resp.status])
  ELSE LET r == ScraperMap(s.method, body)
       IN  IF r.ok THEN Return(s, r.rec)
           ELSE Raise(s, [err |-> r.err, status |-> 0])

\* ----------------------------------------------------------- the payloads
ReactPayload ==
  [name |-> JStr("react"), full_name |-> JStr("facebook/react"),
   stargazers_count |-> JInt(220000), language |-> JStr("JavaScript"),
   topics |-> JList(<<JStr("ui"), JStr("react")>>)]

FullPayload ==
  [name |-> JStr("vue"), full_name |-> JStr("vuejs/vue"),
   description |-> JStr("a framework"), stargazers_count |-> JInt(7),
   forks_count |-> JInt(3), watchers_count |-> JInt(7),
   open_issues_count |-> JInt(1), language |-> JStr("TypeScript"),
   license |-> JDict([k \in {"name"} |-> JStr("MIT")]),
   topics |-> JList(<<JStr("ui")>>), created_at |-> JStr("2013"),
   updated_at |-> JStr("2024"), pushed_at |-> JStr("2024"),
   html_url |-> JStr("https://github.com/vuejs/vue")]

\* The repository payloads: complete, sparse, and with one field null or
\* missing.
RepoPayloads ==
  {ReactPayload, FullPayload, EmptyDict}
    \cup {WithKey(FullPayload, k, Null) : k \in DOMAIN FullPayload}
    \cup {Without(FullPayload, k) :
            k \in {"description", "language", "license", "topics"}}

FullContributor ==
  [login |-> JStr("ann"), avatar_url |-> JStr("a.png"),
   contributions |-> JInt(4), html_url |-> JStr("https://github.com/ann")]

ContributorItems ==
  {FullContributor, WithKey(FullContributor, "login", Null),
   Without(FullContributor, "contributions")}

PlainIssue ==
  [number |-> JInt(1), title |-> JStr("crash"), state |-> JStr("open"),
   user |-> JDict([k \in {"login"} |-> JStr("bob")]),
   created_at |-> JStr("2024"), closed_at |-> Null,
   labels |-> JList(<<JDict([k \in {"name"} |-> JStr("bug")])>>),
   comments |-> JInt(2)]

IssueItems ==
  {PlainIssue,
   [number |-> JInt(2)],
   WithKey(PlainIssue, "pull_request", JDict([k \in {"url"} |-> JStr("pr")])),
   WithKey(PlainIssue, "pull_request", Null),
   WithKey(PlainIssue, "user", Null)}

UserProfile ==
  [login |-> JStr("octocat"), name |-> JStr("Octo"), bio |-> Null,
   followers |-> JInt(3), following |-> JInt(1), public_repos |-> JInt(2)]

LanguageBodies == {EmptyDict, [JavaScript |-> JInt(5)]}

\* The bodies a 2xx response to a GitHubScraper request may carry.
ScraperBodies(m) ==
  CASE m = "scraper.get_repo" -> RepoPayloads
    [] m = "scraper.get_contributors" -> SeqsUpTo(ContributorItems, MaxItems)
    [] m = "scraper.get_issues" -> SeqsUpTo(IssueItems, MaxItems)
    [] m = "scraper.get_languages" -> LanguageBodies
    [] m = "scraper.search_repos" -> SeqsUpTo({FullPayload, EmptyDict}, MaxItems)

\* ------------------------------------------------------------ the actions
ClientFns == ClientMethods \cup {"search_trending_repos", "analyze_user"}
ScraperFns == ScraperMethods \cup {"scraper.get_repo_full", "scrape_repo"}

\* The caller calls fn (search_repos with the per_page argument cap,
\* search_trending_repos with args).
Begin(fn, cap, args) ==
  LET s == [IdleTask EXCEPT !.fn = fn, !.cap = cap, !.args = args]
  IN  CASE fn = "search_trending_repos" ->
             StartMethod([s EXCEPT !.cap = TrendingCap], "search_repos")
        [] fn = "analyze_user" -> StartMethod(s, "get_user")
        [] fn \in {"scrape_repo", "scraper.get_repo_full"} ->
             StartMethod(s, "scraper.get_repo")
        [] OTHER -> StartMethod(s, fn)

\* The body a 2xx response carries for the request in flight.
Body(s) ==
  LET req == s.reqs[Len(s.reqs)]
  IN  IF s.method \in ClientWalks
      THEN Slice(total, req.page, req.per_page)
      ELSE IF s.method = "get_user" THEN UserProfile ELSE FullPayload

ErrorBody == [from |-> 0, n |-> 0]

Call(t, fns) ==
  /\ tasks[t].pc = "idle"
  /\ \E fn \in fns :
       \E cap \in (IF fn = "search_repos" THEN SearchCaps ELSE {0}),
          args \in (IF fn = "search_trending_repos" THEN TrendingArgs ELSE {NoArgs}) :
         /\ tasks' = [tasks EXCEPT ![t] = Begin(fn, cap, args)]
         /\ closes' = IF fn \in ScopedFns THEN 0 ELSE closes
  /\ UNCHANGED <<total, changes, now, loopOrigin, HEADERS, scrapers>>

\* GitHubClient.get from the response (status, headers, the items of a 2xx
\* body) on: the rate check, then either the sleep or the rest of get() and
\* of its caller up to the next await.
RespondWith(t, status, hdr, items) ==
  LET s == tasks[t]
      w == GovernorWait(hdr, LoopTime)
      s1 == [s EXCEPT !.resp =
               [status |-> status, hdr |-> hdr,
                body |-> IF IsError(status) THEN ErrorBody ELSE items,
                at |-> now, wait |-> w]]
  IN  tasks' = [tasks EXCEPT ![t] = AfterRateCheck(s1, w)]

\* The remote answers the request in flight from its listing.
GetRespond(t) ==
  LET s == tasks[t]
  IN  /\ s.pc = "awaiting"
      /\ s.method \in ClientMethods
      /\ \E status \in Statuses, hdr \in HeaderSets(now) :
           /\ \/ now < MaxClock
              \/ HeaderGet(hdr, "X-RateLimit-Remaining", DefaultRemaining) >= LowWater
           /\ RespondWith(t, status, hdr, Body(s))
      /\ UNCHANGED <<closes, total, changes, now, loopOrigin, HEADERS, scrapers>>

\* A remote that answers every page request of a walk with one item or with
\* none, whatever per_page asked for.
TrickleFills == {0, 1}

\* Its quota headers: none, or a low quota with the reset ahead.
TrickleHeaders(clock) ==
  {[k \in {} |-> 0],
   [k \in {"X-RateLimit-Remaining", "X-RateLimit-Reset"} |->
      IF k = "X-RateLimit-Remaining" THEN LowWater - 1 ELSE clock + ResetAhead]}

TrickleRespond(t) ==
  LET s == tasks[t]
  IN  /\ s.pc = "awaiting"
      /\ s.method \in ClientWalks
      /\ \E status \in Statuses, hdr \in TrickleHeaders(now), n \in TrickleFills :
           /\ \/ now < MaxClock
              \/ HeaderGet(hdr, "X-RateLimit-Remaining", DefaultRemaining) >= LowWater
           /\ LET req == s.reqs[Len(s.reqs)]
              IN  RespondWith(t, status, hdr,
                              [from |-> (req.page - 1) * req.per_page + 1, n |-> n])
      /\ UNCHANGED <<closes, total, changes, now, loopOrigin, HEADERS, scrapers>>

\* A GitHubScraper handler from the response on: no header is read.
ScraperRespond(t) ==
  LET s == tasks[t]
  IN  /\ s.pc = "awaiting"
      /\ s.method \in ScraperMethods
      /\ \E status \in Statuses, hdr \in HeaderSets(now) :
           \E body \in (IF IsError(status) THEN {<<>>} ELSE ScraperBodies(s.method)) :
             LET s1 == [s EXCEPT !.resp =
                          [status |-> status, hdr |-> hdr, body |-> body,
                           at |-> now, wait |-> 0]]
             IN  tasks' = [tasks EXCEPT ![t] = ScraperAfter(s1, body)]
      /\ UNCHANGED <<closes, total, changes, now, loopOrigin, HEADERS, scrapers>>

WakeAt(s) == s.resp.at + s.resp.wait

\* asyncio.sleep(wait_time) is over: the clock has advanced, get() goes on.
Wake(t) ==
  LET s == tasks[t]
  IN  /\ s.pc = "sleeping"
      /\ \A u \in Tasks : tasks[u].pc = "sleeping" => WakeAt(s) <= WakeAt(tasks[u])
      /\ now' = Max(now, WakeAt(s))
      /\ tasks' = [tasks EXCEPT ![t] = GetAfterWait(s)]
      /\ UNCHANGED <<closes, total, changes, loopOrigin, HEADERS, scrapers>>

\* client.get raises instead of answering (connection failure, timeout).
NetFail(t) ==
  LET s == tasks[t]
  IN  /\ s.pc = "awaiting"
      /\ tasks' = [tasks EXCEPT ![t] = Raise(s, [err |-> "NetworkError", status |-> 0])]
      /\ UNCHANGED <<closes, total, changes, now, loopOrigin, HEADERS, scrapers>>

\* The caller cancels the task: CancelledError is raised at the await the
\* task is suspended in.
Cancel(t) ==
  LET s == tasks[t]
  IN  /\ s.pc \in {"awaiting", "sleeping"}
      /\ tasks' = [tasks EXCEPT ![t] =
                     Exit(s, "cancelled", [err |-> "CancelledError", status |-> 0])]
      /\ UNCHANGED <<closes, total, changes, now, loopOrigin, HEADERS, scrapers>>

\* __aexit__: close() has awaited client.aclose(); the outcome of the block
\* now reaches the caller.
CloseDone(t) ==
  /\ tasks[t].pc = "closing"
  /\ closes' = closes + 1
  /\ tasks' = [tasks EXCEPT ![t].pc = "done"]
  /\ UNCHANGED <<total, changes, now, loopOrigin, HEADERS, scrapers>>

\* The caller has taken the outcome; the task may be used for a fresh call.
Consume(t) ==
  /\ tasks[t].pc = "done"
  /\ tasks' = [tasks EXCEPT ![t] = IdleTask]
  /\ UNCHANGED <<closes, total, changes, now, loopOrigin, HEADERS, scrapers>>

\* The remote listing grows or shrinks between two requests.
ListingChange ==
  /\ changes < MaxChanges
  /\ \E tot \in Totals \ {total} : total' = tot
  /\ changes' = changes + 1
  /\ UNCHANGED <<tasks, closes, now, loopOrigin, HEADERS, scrapers>>

\* GitHubScraper objects of one process and the headers of their requests.
\* HEADERS as the class statement leaves it.
ClassHeaders ==
  ("User-Agent" :> "GitHub-Intelligence/1.0")
    @@ ("Accept" :> "application/vnd.github.v3+json")

\* The token argument of GitHubScraper(...): "" stands for None.
Tokens == {"", "t1", "t2"}

\* GitHubScraper.__init__: self.HEADERS is the class's dict, the item
\* assignment changes it for the process; the client takes a copy of it as
\* the headers of all its requests.
NewScraper(token) ==
  /\ Len(scrapers) < MaxScrapers
  /\ LET headers == IF token # ""
                    THEN ("Authorization" :> ("token " \o token)) @@ HEADERS
                    ELSE HEADERS
     IN  /\ HEADERS' = headers
         /\ scrapers' = Append(scrapers, [token |-> token, headers |-> headers,
                                          sent |-> <<>>])
  /\ UNCHANGED <<tasks, closes, total, changes, now, loopOrigin>>

\* self.client.get(url) of scraper number i: the request carries the
\* client's headers.
ScraperSend(i) ==
  /\ i \in 1..Len(scrapers)
  /\ Len(scrapers[i].sent) < MaxSends
  /\ scrapers' = [scrapers EXCEPT ![i].sent = Append(@, scrapers[i].headers)]
  /\ UNCHANGED <<tasks, closes, total, changes, now, loopOrigin, HEADERS>>

Init ==
  /\ tasks = [t \in Tasks |-> IdleTask]
  /\ closes = 0
  /\ total \in Totals
  /\ changes = 0
  /\ now = Epoch0
  /\ loopOrigin \in {0, MaxOrigin}
  /\ HEADERS = ClassHeaders
  /\ scrapers = <<>>

Next ==
  \/ Call("a", ClientFns)
  \/ GetRespond("a")
  \/ Wake("a")
  \/ NetFail("a")
  \/ Cancel("a")
  \/ CloseDone("a")
  \/ Consume("a")
  \/ ListingChange

Spec == Init /\ [][Next]_vars

\* GitHubScraper alone: its requests do not depend on the listing walked by
\* GitHubClient, nor on the loop's clock.
InitScraper == Init /\ total = 0 /\ loopOrigin = 0

NextScraper ==
  \/ Call("a", ScraperFns)
  \/ ScraperRespond("a")
  \/ NetFail("a")
  \/ Cancel("a")
  \/ CloseDone("a")
  \/ Consume("a")

SpecScraper == InitScraper /\ [][NextScraper]_vars

\* The three functions that open a client of their own in an async with.
NextScoped ==
  \/ Call("a", ScopedFns)
  \/ GetRespond("a")
  \/ ScraperRespond("a")
  \/ Wake("a")
  \/ NetFail("a")
  \/ Cancel("a")
  \/ CloseDone("a")
  \/ Consume("a")
  \/ ListingChange

SpecScoped == Init /\ [][NextScoped]_vars

\* The statements of analyze_user after its fetches, on listings of every
\* shape: the frame is the one of line 176, with the profile and the repos
\* that get_user_repos returned (the requests behind them are left out).
Numbered(q) == [i \in 1..Len(q) |-> WithKey(q[i], "id", JInt(i))]

AnalyzeShapes == {StarGo10, StarGo5, NullLang, NoCounts, NoLang, NullStars}

\* Short listings of all shapes, and listings of two star counts that are as
\* long as top_repos or longer.
Listings ==
  {Numbered(q) : q \in SeqsUpTo(AnalyzeShapes, MaxRepos)}
    \cup {Numbered(q) :
            q \in UNION {[1..n -> {StarGo5, NoCounts}] : n \in TopN..(TopN + MaxBeyond)}}

AnalyzeFrame(listing) ==
  [IdleTask EXCEPT !.pc = "analysing", !.fn = "analyze_user",
                   !.method = "get_user_repos",
                   !.parts = <<UserProfile, listing>>]

InitAnalyze ==
  /\ \E listing \in Listings :
       tasks = [t \in Tasks |-> IF t = "a" THEN AnalyzeFrame(listing) ELSE IdleTask]
  /\ closes = 0
  /\ total = 0
  /\ changes = 0
  /\ now = Epoch0
  /\ loopOrigin = 0
  /\ HEADERS = ClassHeaders
  /\ scrapers = <<>>

Analyse(t) ==
  /\ tasks[t].pc = "analysing"
  /\ tasks' = [tasks EXCEPT ![t] = AnalyzeTail(tasks[t])]
  /\ UNCHANGED <<closes, total, changes, now, loopOrigin, HEADERS, scrapers>>

NextAnalyze ==
  \/ Analyse("a")
  \/ CloseDone("a")
  \/ Consume("a")

SpecAnalyze == InitAnalyze /\ [][NextAnalyze]_vars

\* GitHubScraper objects alone: constructions and requests.
InitHeaders == Init /\ total = 0 /\ loopOrigin = 0

NextHeaders ==
  \/ \E token \in Tokens : NewScraper(token)
  \/ \E i \in 1..MaxScrapers : ScraperSend(i)

SpecHeaders == InitHeaders /\ [][NextHeaders]_vars

\* The walks of GitHubClient against the remote that trickles.
InitTrickle == Init /\ total = 0 /\ loopOrigin = 0

NextTrickle ==
  \/ Call("a", ClientWalks)
  \/ TrickleRespond("a")
  \/ Wake("a")
  \/ NetFail("a")
  \/ Cancel("a")
  \/ Consume("a")

SpecTrickle == InitTrickle /\ [][NextTrickle]_vars

\* Two tasks call single-request methods of one GitHubClient concurrently.
InitConc == Init /\ total = 0

NextConc ==
  \E t \in Tasks :
    \/ Call(t, {"get_user", "get_repo"})
    \/ GetRespond(t)
    \/ Wake(t)
    \/ NetFail(t)
    \/ Cancel(t)
    \/ Consume(t)

SpecConc == InitConc /\ [][NextConc]_vars

\* ------------------------------------------------------------- the claims
\* len() of the accumulator before request number i of a walk was issued.
RECURSIVE CountFirst(_, _)
CountFirst(acc, k) == IF k = 0 THEN 0 ELSE acc[k].n + CountFirst(acc, k - 1)

Remaining(hdr) == HeaderGet(hdr, "X-RateLimit-Remaining", DefaultRemaining)
ResetEpoch(hdr) == HeaderGet(hdr, "X-RateLimit-Reset", DefaultReset)

\* The first page of a directly called walk came back non-empty and shorter
\* than the per_page that was asked for.
FirstPageShort(s) ==
  /\ s.fn \in ClientWalks
  /\ s.acc # <<>>
  /\ s.acc[1].n < s.reqs[1].per_page

\* C1: in every walk of GitHubClient, a first page of n items, n smaller than
\* the per_page requested, ends the walk after that one request, and the
\* result has exactly n items.
C1_ShortFirstPageEndsWalk ==
  \A t \in Tasks :
    LET s == tasks[t]
    IN  FirstPageShort(s) =>
          /\ Len(s.reqs) = 1
          /\ s.pc = "done"
          /\ s.outcome = "returned"
          /\ Count(s.result) = s.acc[1].n

\* Every request of the walk so far was answered with exactly the number of
\* items it asked for.
AllPagesFull(s) ==
  /\ Len(s.acc) = Len(s.reqs)
  /\ \A i \in 1..Len(s.acc) : s.acc[i].n = s.reqs[i].per_page

\* C2: in search_repos called with cap, request number i is for page i and
\* asks for min(100, cap - accumulated) items; when every page comes back
\* full the walk returns only with exactly cap items, and its last request
\* asked for cap minus what was accumulated before it.
C2_FullPagesReachCap ==
  \A t \in Tasks :
    LET s == tasks[t]
    IN  s.fn = "search_repos" =>
          /\ \A i \in 1..Len(s.reqs) :
               /\ i <= Len(s.acc) + 1
               /\ s.reqs[i].per_page = Min(100, s.cap - CountFirst(s.acc, i - 1))
               /\ s.reqs[i].per_page > 0
          /\ (s.outcome = "returned" /\ AllPagesFull(s)) =>
               /\ Count(s.result) = s.cap
               /\ s.result = s.acc
               /\ s.reqs # <<>> =>
                    s.reqs[Len(s.reqs)].per_page =
                      s.cap - CountFirst(s.acc, Len(s.reqs) - 1)

\* C2's case: a cap of 250 was filled by three full pages, the last one asked
\* for with per_page = 50.
C2_Witness ==
  LET s == tasks["a"]
  IN  /\ s.fn = "search_repos" /\ s.cap = 2 * PageSize + PageSize \div 2
      /\ s.pc = "done" /\ s.outcome = "returned"
      /\ AllPagesFull(s)
      /\ Len(s.reqs) = 3
      /\ s.reqs[3].per_page = PageSize \div 2

\* The cap of a walk, as the caller knows it.
CapOf(s) ==
  CASE s.fn = "search_repos" -> s.cap
    [] s.fn \in {"get_user_repos", "get_contributors"} -> 100
    [] s.fn = "get_stargazers" -> 1000

\* C3: whatever the remote returns, page by page, a walk never returns more
\* items than its cap: 100 for get_user_repos and get_contributors, 1000 for
\* get_stargazers, the per_page argument for search_repos.
C3_CapBoundsEveryWalk ==
  \A t \in Tasks :
    LET s == tasks[t]
    IN  (s.fn \in ClientWalks /\ s.outcome = "returned") =>
          Count(s.result) <= CapOf(s)

\* C4: the wait get() derives from a response is 0 when the remaining quota
\* is 5 or more, and max(0, reset_epoch - now) otherwise, now being the epoch
\* second the response came at.
C4_GovernorWaitsUntilReset ==
  \A t \in Tasks :
    LET s == tasks[t]
    IN  (s.method \in ClientMethods /\ s.resp # NoResp) =>
          s.resp.wait = IF Remaining(s.resp.hdr) >= 5
                        THEN 0
                        ELSE Max(0, ResetEpoch(s.resp.hdr) - s.resp.at)

\* C5: no scraping operation has a request in flight while the response
\* before it, of the same operation, announced a remaining quota below 5 and
\* a reset epoch that has not come yet: the wait is applied first.
C5_WaitAppliedBeforeNextRequest ==
  \A t \in Tasks :
    LET s == tasks[t]
    IN  (s.pc = "awaiting" /\ s.resp # NoResp) =>
          ~(Remaining(s.resp.hdr) < 5 /\ now < ResetEpoch(s.resp.hdr))

\* C6: get_repo_full requests its endpoints one after the other and stops at
\* the first that fails: an error status makes the call fail at once with the
\* error as its outcome, no later endpoint is requested, and a composite is
\* returned only when all four sub-fetches delivered their part.
C6_AbortOnFirstFailure ==
  \A t \in Tasks :
    LET s == tasks[t]
    IN  s.fn = "scraper.get_repo_full" =>
          /\ Len(s.reqs) = Len(s.parts) + (IF s.outcome = "returned" THEN 0 ELSE 1)
          /\ \A i \in 1..Len(s.reqs) : s.reqs[i].ep = FullOrder[i]
          /\ (s.resp # NoResp /\ IsError(s.resp.status)) => s.outcome = "raised"
          /\ s.outcome = "returned" =>
               /\ Len(s.parts) = 4
               /\ s.result = [repo |-> s.parts[1], contributors |-> s.parts[2],
                              issues |-> s.parts[3], languages |-> s.parts[4]]
          /\ s.outcome \in {"raised", "cancelled"} =>
               /\ s.pc = "done"
               /\ Len(s.parts) < 4
               /\ DOMAIN s.result = {"err", "status"}

\* C6's case: the repository fetch delivered, the contributor listing came
\* back with status 500, and the call failed without a third request.
C6_Witness ==
  LET s == tasks["a"]
  IN  /\ s.fn = "scraper.get_repo_full"
      /\ Len(s.parts) = 1
      /\ s.resp.status = 500
      /\ s.outcome = "raised" /\ s.result.status = 500
      /\ Len(s.reqs) = 2

\* C7: a function that opens its client in an async with closes it exactly
\* once on every way out: the outcome reaches the caller only after the one
\* close, and from the close on no request is pending or issued.
C7_ClosedExactlyOnce ==
  \A t \in Tasks :
    LET s == tasks[t]
    IN  s.fn \in ScopedFns =>
          /\ closes <= 1
          /\ s.pc = "done" => closes = 1
          /\ s.pc \in {"awaiting", "sleeping", "closing"} => closes = 0

\* C7's case: analyze_user was cancelled while get() slept on the profile's
\* response (a 200 that was never used: no part, no second request), and its
\* caller has the cancellation, the client closed once.
C7_Witness ==
  LET s == tasks["a"]
  IN  /\ s.fn = "analyze_user"
      /\ s.pc = "done" /\ s.outcome = "cancelled"
      /\ s.resp.status = 200 /\ s.resp.wait > 0
      /\ s.parts = <<>> /\ Len(s.reqs) = 1
      /\ closes = 1

\* C8: the mappers are total: a handler of GitHubScraper fails only with the
\* transport's errors, never because a field of a raw item is null or
\* missing.
C8_MappersNeverRaise ==
  \A t \in Tasks :
    LET s == tasks[t]
    IN  (s.method \in ScraperMethods /\ s.outcome = "raised") =>
          s.result.err \in {"HTTPStatusError", "NetworkError"}

\* The items of a raw listing that carry the pull_request key.
Marked(q) == {k \in 1..Len(q) : "pull_request" \in DOMAIN q[k]}

\* C9: get_issues returns one Issue for every raw item without the
\* pull_request key and none for an item with it: as many issues as raw
\* items minus marked items.
C9_IssuesAreRawMinusMarked ==
  \A t \in Tasks :
    LET s == tasks[t]
    IN  (s.fn = "scraper.get_issues" /\ s.resp # NoResp /\ s.resp.status = 200) =>
          /\ s.outcome = "returned"
          /\ Len(s.result) = Len(s.resp.body) - Cardinality(Marked(s.resp.body))

\* C10: while one call on a client is suspended in a governor wait, no other
\* call on that client issues a request.
C10_NoRequestDuringAWait ==
  [][\A t \in Tasks, u \in Tasks :
       (t # u /\ tasks[t].pc = "sleeping") =>
         ~(tasks[u].pc # "awaiting" /\ tasks'[u].pc = "awaiting")]_vars

\* C11: get() reports an error status only after the governor's wait: a call
\* whose latest response made the governor compute a positive wait is
\* suspended in that wait with no outcome yet, and it raises the HTTP error
\* of the response, or goes on with a successful response (returns it, or
\* issues the walk's next request), only once the wait is over.
C11_ErrorOnlyAfterWait ==
  \A t \in Tasks :
    LET s == tasks[t]
    IN  (s.method \in ClientMethods /\ s.resp # NoResp) =>
          /\ s.pc = "sleeping" => (s.resp.wait > 0 /\ s.outcome = "none")
          /\ (s.outcome = "raised" /\ s.result.err = "HTTPStatusError") =>
               /\ IsError(s.resp.status)
               /\ s.result.status = s.resp.status
               /\ now >= s.resp.at + s.resp.wait
          /\ (s.outcome = "returned" \/ s.pc = "awaiting") =>
               /\ ~IsError(s.resp.status)
               /\ now >= s.resp.at + s.resp.wait

\* C11's case: a 429 with remaining quota 4 and a reset ahead made the call
\* sleep, and the HTTP error reached the caller when the wait was over.
C11_Witness ==
  LET s == tasks["a"]
  IN  /\ s.fn = "get_user"
      /\ s.resp.status = 429 /\ Remaining(s.resp.hdr) < LowWater
      /\ s.resp.wait > 0
      /\ s.outcome = "raised" /\ s.result = [err |-> "HTTPStatusError", status |-> 429]
      /\ now = s.resp.at + s.resp.wait

\* C12: an error status is never retried: once a request of GitHubClient is
\* answered with 429 or another error status, the call (after the governor's
\* wait, unless it is cancelled in it) fails with exactly that HTTP error;
\* the failed request stays the last one, every request before it was a
\* different page that delivered items, and no request follows it.
C12_ErrorStatusNeverRetried ==
  \A t \in Tasks :
    LET s == tasks[t]
    IN  (s.method \in ClientMethods /\ s.resp # NoResp /\ IsError(s.resp.status)) =>
          /\ s.pc # "awaiting"
          /\ s.outcome \in {"none", "raised", "cancelled"}
          /\ s.outcome = "none" => s.pc = "sleeping"
          /\ s.outcome = "raised" =>
               s.result = [err |-> "HTTPStatusError", status |-> s.resp.status]
          /\ IF s.method \in ClientWalks
             THEN /\ Len(s.reqs) = Len(s.acc) + (IF s.fn = "analyze_user" THEN 2 ELSE 1)
                  /\ s.reqs[Len(s.reqs)].page = Len(s.acc) + 1
             ELSE Len(s.reqs) = 1

\* C12's case: search_repos with cap 250 got a full first page and a 429 for
\* page 2; the caller has the 429, and page 2 was requested once.
C12_Witness ==
  LET s == tasks["a"]
  IN  /\ s.fn = "search_repos" /\ s.cap = 2 * PageSize + PageSize \div 2
      /\ Len(s.acc) = 1 /\ Len(s.reqs) = 2
      /\ s.resp.status = 429
      /\ s.pc = "done" /\ s.outcome = "raised"
      /\ s.result = [err |-> "HTTPStatusError", status |-> 429]

\* C13: get_repo_full requests repository metadata, contributor listing,
\* issue listing, language breakdown, in this order and each at most once: a
\* request is in flight only when every endpoint before it answered with a
\* success status and delivered its part.
C13_FourEndpointsInOrder ==
  \A t \in Tasks :
    LET s == tasks[t]
        order == <<"scraper.get_repo", "scraper.get_contributors",
                   "scraper.get_issues", "scraper.get_languages">>
    IN  s.fn = "scraper.get_repo_full" =>
          /\ Len(s.reqs) <= 4
          /\ \A i \in 1..Len(s.reqs) : s.reqs[i].ep = order[i]
          /\ \A i, j \in 1..Len(s.reqs) : i # j => s.reqs[i].ep # s.reqs[j].ep
          /\ Len(s.parts) >= Len(s.reqs) - 1
          /\ (s.pc = "awaiting" /\ Len(s.reqs) > 1) =>
               /\ ~IsError(s.resp.status)
               /\ Len(s.parts) = Len(s.reqs) - 1
          /\ s.outcome = "returned" => Len(s.reqs) = 4

\* C13's case: the language breakdown is being requested, as the fourth
\* request, after the issue listing delivered its part.
C13_Witness ==
  LET s == tasks["a"]
  IN  /\ s.fn = "scraper.get_repo_full"
      /\ s.pc = "awaiting"
      /\ Len(s.reqs) = 4 /\ s.reqs[4].ep = "scraper.get_languages"
      /\ Len(s.parts) = 3
      /\ s.resp.status = 200

\* The requests of the task's current walk (analyze_user's walk comes after
\* its profile request).
WalkReqs(s) == IF s.fn = "analyze_user" THEN Tail(s.reqs) ELSE s.reqs

\* C14: in every walk of GitHubClient, whatever calls came before it on the
\* task, request number i is for page i (the first for page 1, each later
\* one for the page before plus 1), and the accumulator holds, in this
\* order, the items answered to request 1, 2, ...
C14_PagesInIncreasingOrder ==
  \A t \in Tasks :
    LET s == tasks[t]
    IN  (s.method \in ClientWalks) =>
          LET rq == WalkReqs(s)
          IN  /\ \A i \in 1..Len(rq) :
                   /\ rq[i].ep = s.method
                   /\ rq[i].page = i
              /\ Len(s.acc) <= Len(rq)
              /\ \A i \in 1..Len(s.acc) :
                   /\ s.acc[i].n > 0
                   /\ s.acc[i].from = (rq[i].page - 1) * rq[i].per_page + 1
              /\ s.pc \in {"awaiting", "sleeping"} => s.page = Len(rq)

\* C14's case: get_stargazers has accumulated three pages and is asking for
\* page 4.
C14_Witness ==
  LET s == tasks["a"]
  IN  /\ s.fn = "get_stargazers"
      /\ s.pc = "awaiting"
      /\ Len(s.acc) = 3 /\ Len(s.reqs) = 4
      /\ s.reqs[4].page = 4
      /\ s.acc[3].from = 2 * PageSize + 1

\* A repo's count under key, a missing one taken as 0.
CountOf(r, key) == IF key \in DOMAIN r THEN r[key].val ELSE 0

RECURSIVE TotalOf(_, _)
TotalOf(repos, key) ==
  IF repos = <<>> THEN 0 ELSE CountOf(Head(repos), key) + TotalOf(Tail(repos), key)

\* The repos that have a primary language: the key is there and not null.
WithLanguage(repos) ==
  {i \in 1..Len(repos) : "language" \in DOMAIN repos[i] /\ repos[i].language.kind = "str"}

\* Every count of the listing is an integer or missing.
CountsAreNumbers(repos) ==
  \A i \in 1..Len(repos) : \A key \in {"stargazers_count", "forks_count"} :
    key \in DOMAIN repos[i] => repos[i][key].kind = "int"

\* C15: over the fetched listing, analyze_user returns total_stars = the sum
\* of the star counts and total_forks = the sum of the fork counts (a missing
\* count is 0), and languages maps each primary language to the number of
\* repos having it; repos without language, or with null, are under no key.
C15_TotalsAndHistogram ==
  \A t \in Tasks :
    LET s == tasks[t]
    IN  (s.fn = "analyze_user" /\ Len(s.parts) = 2 /\ s.pc \in {"closing", "done"}
           /\ CountsAreNumbers(s.parts[2])) =>
          LET repos == s.parts[2]
              r == s.result
          IN  /\ s.outcome = "returned"
              /\ r.total_stars = TotalOf(repos, "stargazers_count")
              /\ r.total_forks = TotalOf(repos, "forks_count")
              /\ DOMAIN r.languages = {repos[i].language.val : i \in WithLanguage(repos)}
              /\ \A l \in DOMAIN r.languages :
                   r.languages[l] =
                     Cardinality({i \in WithLanguage(repos) : repos[i].language.val = l})

\* C15's case: the listing 10/Go, 5/Go, 0/null was analysed to total_stars 15
\* and languages {Go: 2}.
C15_Witness ==
  LET s == tasks["a"]
  IN  /\ s.fn = "analyze_user" /\ s.outcome = "returned"
      /\ s.parts[2] = Numbered(<<StarGo10, StarGo5, NullLang>>)
      /\ s.result.total_stars = 15
      /\ s.result.total_forks = 3
      /\ s.result.languages = [l \in {"Go"} |-> 2]

\* The listing positions of the repos kept in top_repos, in its order (in an
\* analysed listing the repo at position i has id i).
TopIds(top) == [k \in 1..Len(top) |-> top[k].id.val]

\* C16: top_repos holds min(10, number of repos fetched) repos of the
\* listing, by star count descending; no repo left out has more stars than a
\* repo kept; repos of equal star count keep the listing's order, among the
\* kept ones and between a kept and a left out one.
C16_TopTenStable ==
  \A t \in Tasks :
    LET s == tasks[t]
    IN  (s.fn = "analyze_user" /\ s.outcome = "returned") =>
          LET repos == s.parts[2]
              top == s.result.top_repos
              ids == TopIds(top)
              kept == {ids[k] : k \in 1..Len(top)}
              stars(i) == CountOf(repos[i], "stargazers_count")
          IN  /\ Len(top) = Min(10, Len(repos))
              /\ \A k \in 1..Len(top) : ids[k] \in 1..Len(repos) /\ top[k] = repos[ids[k]]
              /\ Cardinality(kept) = Len(top)
              /\ \A k, m \in 1..Len(top) :
                   k < m => \/ stars(ids[k]) > stars(ids[m])
                            \/ (stars(ids[k]) = stars(ids[m]) /\ ids[k] < ids[m])
              /\ \A i \in (1..Len(repos)) \ kept : \A k \in 1..Len(top) :
                   \/ stars(i) < stars(ids[k])
                   \/ (stars(i) = stars(ids[k]) /\ ids[k] < i)

\* C16's case: of eleven repos, the last kept and a left out one have the
\* same star count, and a repo listed after the left out one is kept.
C16_Witness ==
  LET s == tasks["a"]
  IN  /\ s.fn = "analyze_user" /\ s.outcome = "returned"
      /\ Len(s.parts[2]) = 11
      /\ Len(s.result.top_repos) = 10
      /\ LET repos == s.parts[2]
             ids == TopIds(s.result.top_repos)
         IN  \E i \in 1..11 :
               /\ \A k \in 1..10 : ids[k] # i
               /\ CountOf(repos[i], "stargazers_count")
                    = CountOf(repos[ids[10]], "stargazers_count")
               /\ \E k \in 1..10 : ids[k] > i

\* The limit the caller of search_trending_repos supplied, 100 when none.
LimitOf(s) == IF s.args.since.kind = "int" THEN s.args.since.val ELSE 100

\* The requests of search_trending_repos go to the search endpoint with the
\* query stars:>100, followed by " language:<lang>" exactly when a language
\* is given, sorted by stars, page by page.
TrendingQueryAndSort(s) ==
  \A i \in 1..Len(s.reqs) :
    /\ s.reqs[i].ep = "search_repos"
    /\ s.reqs[i].page = i
    /\ s.reqs[i].sort = "stars"
    /\ s.reqs[i].q = (CASE s.args.language = "" -> "stars:>100"
                        [] s.args.language = "python" -> "stars:>100 language:python")

\* C17: search_trending_repos queries stars:>100 with " language:<lang>"
\* exactly when a language is given, sorted by stars, through the paginator,
\* and returns at most the limit its caller supplied, 100 when none was.
C17_TrendingQueryAndLimit ==
  \A t \in Tasks :
    LET s == tasks[t]
    IN  s.fn = "search_trending_repos" =>
          /\ TrendingQueryAndSort(s)
          /\ s.outcome = "returned" => Count(s.result) <= LimitOf(s)

\* C18: get_repo maps a 2xx payload field by field: a Repository it returns
\* has the payload's stargazers_count as stars, its language as language,
\* its topics as topics, and license None when the payload has no license;
\* the payload react / facebook/react / 220000 / JavaScript / [ui, react]
\* is mapped without raising, to stars 220000, language JavaScript, topics
\* ui, react and license None.
C18_RepoMappedFieldByField ==
  \A t \in Tasks :
    LET s == tasks[t]
        data == s.resp.body
        rec == s.result
    IN  (s.fn \in {"scraper.get_repo", "scrape_repo"} /\ s.resp # NoResp
           /\ s.resp.status = 200) =>
          /\ s.outcome = "returned" =>
               /\ "stargazers_count" \in DOMAIN data => rec.stars = data.stargazers_count
               /\ "language" \in DOMAIN data => rec.language = data.language
               /\ "topics" \in DOMAIN data => rec.topics = data.topics
               /\ "license" \notin DOMAIN data => rec.license = Null
          /\ (DOMAIN data = {"name", "full_name", "stargazers_count", "language", "topics"}
                /\ data.name = JStr("react") /\ data.full_name = JStr("facebook/react")
                /\ data.stargazers_count = JInt(220000)
                /\ data.language = JStr("JavaScript")
                /\ data.topics = JList(<<JStr("ui"), JStr("react")>>)) =>
               /\ s.outcome = "returned"
               /\ rec.name = JStr("react") /\ rec.full_name = JStr("facebook/react")
               /\ rec.stars = JInt(220000)
               /\ rec.language = JStr("JavaScript")
               /\ rec.topics = JList(<<JStr("ui"), JStr("react")>>)
               /\ rec.license = Null

\* C18's case: get_repo has returned the Repository of the react payload.
C18_Witness ==
  LET s == tasks["a"]
  IN  /\ s.fn = "scraper.get_repo"
      /\ s.resp.status = 200 /\ s.resp.body = ReactPayload
      /\ s.pc = "done" /\ s.outcome = "returned"
      /\ s.result.stars = JInt(220000) /\ s.result.license = Null
      /\ s.result.url = JStr("")

\* C19: every request of a GitHubScraper carries exactly the credential its
\* own constructor got, whatever scrapers were constructed before it: the
\* Authorization header "token <t>" for the token t, and no Authorization
\* header when no token was passed.
C19_OwnCredentialOnly ==
  \A i \in 1..Len(scrapers) :
    \A k \in 1..Len(scrapers[i].sent) :
      LET sent == scrapers[i].sent[k]
      IN  IF scrapers[i].token = ""
          THEN "Authorization" \notin DOMAIN sent
          ELSE /\ "Authorization" \in DOMAIN sent
               /\ sent["Authorization"] = "token " \o scrapers[i].token

\* C20: against a listing that does not change, search_repos with cap c
\* returns exactly the first min(c, T) items of the T listed, in listing
\* order: item number i of the result is the item at position i.
C20_ExactPrefixOfListing ==
  \A t \in Tasks :
    LET s == tasks[t]
    IN  (s.fn = "search_repos" /\ s.outcome = "returned" /\ changes = 0) =>
          /\ Count(s.result) = Min(s.cap, total)
          /\ \A i \in 1..Count(s.result) : PosAt(s.result, 1, i) = i

\* C21: no walk of GitHubClient requests pages forever: whatever the remote
\* answers, search_repos, get_user_repos, get_contributors and get_stargazers
\* have issued at most cap + 1 requests (cap: the per_page argument, 100, 100
\* and 1000), because every request but the last brought at least one item
\* and a request is in flight only while fewer than cap items are there.
C21_AtMostCapPlusOneRequests ==
  \A t \in Tasks :
    LET s == tasks[t]
    IN  s.fn \in ClientWalks =>
          /\ Len(s.reqs) <= CapOf(s) + 1
          /\ Len(s.reqs) <= Len(s.acc) + 1
          /\ \A i \in 1..Len(s.acc) : s.acc[i].n >= 1
          /\ s.pc \in {"awaiting", "sleeping"} => Len(s.acc) < CapOf(s)

\* C21's case: the remote gave get_stargazers one item per page; the walk
\* returned its 1000 items after 1000 requests, having slept on the way.
C21_Witness ==
  LET s == tasks["a"]
  IN  /\ s.fn = "get_stargazers"
      /\ s.pc = "done" /\ s.outcome = "returned"
      /\ Len(s.reqs) = 1000
      /\ Count(s.result) = 1000
      /\ s.reqs[1000].page = 1000
      /\ now > Epoch0

====
